---------------------------- MODULE Spec2Model ----------------------------
(***************************************************************************)
(* n0tif: the UID-tracking e-mail checker (internal/email/imap.go, second  *)
(* ImapChecker) with its state store (storage: EmailState, LoadEmailState, *)
(* SaveEmailState) and the monitor that drives it (cmd/n0tif/main.go).     *)
(*                                                                         *)
(* The process is followed from NewImapChecker through the startup         *)
(* InitializeEmailTracking and the StartChecking loop.  SaveEmailState is  *)
(* split at its two file operations (WriteFile of the temporary file, then *)
(* Rename) so that a crash or an I/O failure can fall between them.  The   *)
(* mailbox is changed by the environment between the process's steps.      *)
(***************************************************************************)
EXTENDS Integers, Sequences, FiniteSets, TLC

(***************************************************************************)
(* Program constants.                                                      *)
(***************************************************************************)
mailboxName == "INBOX"
WindowCap   == 100      \* AddUID keeps only the last 100 UIDs
numToFetch  == 10       \* InitializeEmailTracking: baseline sample
numToCheck  == 30       \* CheckForNewEmails: trailing window inspected

(***************************************************************************)
(* Bounds of the model.                                                    *)
(***************************************************************************)
FirstUID    == 10       \* UID of the first message of the initial mailbox
SmallMailbox == 3       \* size of the small initial mailbox
BigMailbox  == 11       \* size of the large initial mailbox
MaxEvents   == 3        \* arrivals, expunges and crashes during a run
MaxEventsBig == 2       \* the same, for a run that starts from the large mailbox
MaxInserts  == 106      \* AddUID calls of the window specification
IdModulus   == 127      \* identifiers of the window specification: 1..IdModulus
MaxEventsShort == 1     \* arrivals, expunges, crashes and signals of a short run
MaxChurn    == 101      \* messages that come and go during a long run
MaxEventsLoad == 1      \* arrivals, expunges, crashes and signals of a run over a stored file
MaxEventsReset == 1     \* arrivals, expunges, crashes and signals of a run with a reset
MaxDate     == 4        \* dates offered to UpdateLastSeenDate: 1..MaxDate
MaxUpdates  == 4        \* calls of UpdateLastSeenDate
MaxArgs     == 2        \* arguments on the command line
MaxRuns     == 2        \* runs of the program from the shell

VARIABLES
    mailbox,        \* the server's INBOX: sequence of messages, by sequence number
    used,           \* UIDs the server has ever assigned (never reused in an epoch)
    pc,             \* position of the process
    ret,            \* where SaveEmailState returns to
    notifiedUIDs,   \* ImapChecker.notifiedUIDs
    emailState,     \* ImapChecker.emailState (storage.EmailState)
    fs,             \* the storage directory: state file and temporary file
    saveData,       \* bytes SaveEmailState is writing
    result,         \* what the CheckForNewEmails in progress returns
    hist,           \* history: what has been observed of the run
    budget,         \* environment events (arrival, expunge, crash, signal) still allowed
    ticker,         \* StartChecking's time.Ticker: whether it runs, and its channel C
    stop,           \* SIGINT/SIGTERM has been delivered to runEmailMonitor
    faults,         \* whether connections, fetches and file operations may fail in this run
    reset,          \* the goroutine that called ResetState: its position and the bytes it is writing
    service,        \* the Windows service of the program, as the service manager holds it
    lastSeenDate    \* ImapChecker.lastSeenDate of the date-tracking checker (0: the zero time)

vars == <<mailbox, used, pc, ret, notifiedUIDs, emailState, fs, saveData,
          result, hist, budget, ticker, stop, faults, reset, service, lastSeenDate>>

(***************************************************************************)
(* Sequences.                                                              *)
(***************************************************************************)
Range(s) == {s[i] : i \in DOMAIN s}

Reverse(s) == [i \in 1..Len(s) |-> s[Len(s) + 1 - i]]

Last(s, n) == IF Len(s) <= n THEN s ELSE SubSeq(s, Len(s) - n + 1, Len(s))

Prefix(s, k) == SubSeq(s, 1, k)

\* Mutant: every fetched message is taken as new.
SelectNew_All(s, seen) == s

\* Mutant: new is what is not in the list of the state, whatever is in seen.
SelectNew_ByWindow(s, seen) ==
    SelectSeq(s, LAMBDA m :
        m.uid \notin (IF mailboxName \in DOMAIN emailState.LastUIDs
                      THEN {emailState.LastUIDs[mailboxName][i] :
                              i \in DOMAIN emailState.LastUIDs[mailboxName]}
                      ELSE {}))

\* The messages of s whose UID is not in seen: if !ic.notifiedUIDs[msg.Uid].
SelectNew(s, seen) == SelectSeq(s, LAMBDA m : m.uid \notin seen)

UIDsOf(s) == [i \in 1..Len(s) |-> s[i].uid]

SubjectsOf(s) == [i \in 1..Len(s) |-> s[i].subject]

Max(S) == IF S = {} THEN 0 ELSE CHOOSE x \in S : \A y \in S : y <= x

(***************************************************************************)
(* storage.EmailState.  LastUIDs is a Go map from mailbox name to a slice; *)
(* a map is a function whose domain is the set of its keys.                *)
(***************************************************************************)
EmptyMap == [k \in {} |-> <<>>]

\* The nil map: what LastUIDs is in an EmailState that json.Unmarshal filled
\* from a document without a "last_uids" object.  Reading it is reading an
\* empty map; assigning to an entry of it panics.
NilMap == [k \in {"nil"} |-> <<>>]

NewEmailState == [LastUIDs |-> EmptyMap]

GetLastUIDs(s) ==
    IF mailboxName \in DOMAIN s.LastUIDs THEN s.LastUIDs[mailboxName] ELSE <<>>

GetHighestUID(s) == Max(Range(GetLastUIDs(s)))

\* Mutant: the cap keeps the oldest entries instead of the newest.
Trim_KeepOldest(l) == IF Len(l) > WindowCap THEN SubSeq(l, 1, WindowCap) ELSE l

\* Keep only the last 100 UIDs.
Trim(l) == IF Len(l) > WindowCap THEN SubSeq(l, Len(l) - WindowCap + 1, Len(l)) ELSE l

\* Mutant: the UID is appended without looking for it in the list.
AddUID_NoDedupe(s, uid) ==
    [LastUIDs |-> [k \in {mailboxName} |-> Trim(Append(GetLastUIDs(s), uid))]]

AddUID(s, uid) ==
    LET l == GetLastUIDs(s) IN
    IF uid \in Range(l)
    THEN [LastUIDs |-> [k \in {mailboxName} |-> l]]
    ELSE [LastUIDs |-> [k \in {mailboxName} |-> Trim(Append(l, uid))]]

RECURSIVE AddUIDs(_, _)
AddUIDs(s, uids) ==
    IF uids = <<>> THEN s ELSE AddUIDs(AddUID(s, Head(uids)), Tail(uids))

(***************************************************************************)
(* The state file.  json.MarshalIndent and json.Unmarshal work on a token  *)
(* stream; the structural tokens are negative, UIDs are the positive ones. *)
(*   { "last_uids" : { "INBOX" : [ u1, ..., un ] } }                       *)
(* The date-tracking version of the storage package writes to the same     *)
(* path   { "last_seen_dates" : { "INBOX" : date } }.                      *)
(***************************************************************************)
LBRACE       == -1
RBRACE       == -2
LBRACKET     == -3
RBRACKET     == -4
KeyLastUIDs  == -5
KeyMailbox   == -6
NULL         == -7
KeyLastSeenDates == -8      \* the key of the date-tracking state's only field

Marshal(s) ==
    IF s.LastUIDs = NilMap
    THEN <<LBRACE, KeyLastUIDs, NULL, RBRACE>>
    ELSE IF mailboxName \in DOMAIN s.LastUIDs
    THEN <<LBRACE, KeyLastUIDs, LBRACE, KeyMailbox, LBRACKET>>
         \o s.LastUIDs[mailboxName] \o <<RBRACKET, RBRACE, RBRACE>>
    ELSE <<LBRACE, KeyLastUIDs, LBRACE, RBRACE, RBRACE>>

\* json.Unmarshal into a zero EmailState: the parsed state, or an error on
\* anything that is not a complete document.  A document that has no
\* "last_uids" object (null, {}, a null member, the date-tracking state:
\* unknown keys are skipped) leaves LastUIDs nil.
Unmarshal(d) ==
    LET n == Len(d) IN
    IF d = <<LBRACE, KeyLastUIDs, LBRACE, RBRACE, RBRACE>>
    THEN [err |-> FALSE, state |-> NewEmailState]
    ELSE IF \/ d \in {<<NULL>>, <<LBRACE, RBRACE>>, <<LBRACE, KeyLastUIDs, NULL, RBRACE>>}
            \/ /\ n \in {5, 7}
               /\ SubSeq(d, 1, 3) = <<LBRACE, KeyLastSeenDates, LBRACE>>
               /\ SubSeq(d, n - 1, n) = <<RBRACE, RBRACE>>
               /\ n = 7 => (d[4] = KeyMailbox /\ d[5] > 0)
    THEN [err |-> FALSE, state |-> [LastUIDs |-> NilMap]]
    ELSE IF /\ n >= 8
            /\ SubSeq(d, 1, 5) = <<LBRACE, KeyLastUIDs, LBRACE, KeyMailbox, LBRACKET>>
            /\ SubSeq(d, n - 2, n) = <<RBRACKET, RBRACE, RBRACE>>
            /\ \A i \in 6..(n - 3) : d[i] > 0
    THEN [err |-> FALSE,
          state |-> [LastUIDs |-> [k \in {mailboxName} |-> SubSeq(d, 6, n - 3)]]]
    ELSE [err |-> TRUE, state |-> NewEmailState]

NoFile == [exists |-> FALSE, data |-> <<>>]

File(d) == [exists |-> TRUE, data |-> d]

\* GetStoragePath and the temporary file's path, as keys of fs.
statePath == "state"

\* Mutant: the data is written over the state file itself.
tempFile_InPlace == statePath

tempFile == "tmp"

\* Mutant: the rename puts only a part of src in place of dst.
Rename_Truncating(f, src, dst) ==
    [f EXCEPT ![dst] = File(Prefix(f[src].data, Len(f[src].data) \div 2)),
              ![src] = NoFile]

\* os.Rename: replaces dst by src in one step.
Rename(f, src, dst) ==
    IF src = dst THEN f ELSE [f EXCEPT ![dst] = f[src], ![src] = NoFile]

\* LoadEmailState: a new state when the file does not exist, else the parsed file.
LoadEmailState(f) ==
    IF ~f[statePath].exists
    THEN [err |-> FALSE, state |-> NewEmailState]
    ELSE Unmarshal(f[statePath].data)

(***************************************************************************)
(* Messages and the mailbox.                                               *)
(***************************************************************************)
SubjectOf(u) == 1000 + u

Msg(u, d) == [uid |-> u, date |-> d, subject |-> SubjectOf(u)]

InitialMailbox(n) == [i \in 1..n |-> Msg(FirstUID + i - 1, i)]

\* Mutant: the comparison is turned around (oldest first).
DateBefore(a, b) == a.date < b.date

\* time.Time.After on the InternalDate of two messages: the sort's less function.
DateAfter(a, b) == a.date > b.date

\* sort.Slice(emails, less) is not stable: every order that less accepts.
RECURSIVE SortSlice(_)
SortSlice(S) ==
    IF S = {} THEN {<<>>}
    ELSE UNION {{<<m>> \o t : t \in SortSlice(S \ {m})} :
                m \in {x \in S : \A y \in S : ~DateAfter(y, x)}}

\* c.Fetch over a sequence set: the messages reach the channel in the server's
\* order; on an error only some of them do.
FetchOutcomes(req) ==
    {x \in {[delivered |-> Prefix(o, k), err |-> e] :
                o \in {req, Reverse(req)}, k \in 0..Len(req), e \in BOOLEAN} :
        x.err \/ Len(x.delivered) = Len(req)}

(***************************************************************************)
(* The environment: the mail server.                                       *)
(***************************************************************************)
InitSizes == {0, SmallMailbox}

\* InternalDate of an arriving message: usually later than every date in the
\* mailbox, sometimes just before the latest one (and then possibly a tie).
LatestDate == Max({mailbox[i].date : i \in DOMAIN mailbox})

ArrivalDates == {LatestDate + 1} \cup {d \in {LatestDate - 1} : d >= 1}

\* The mailbox is only read inside InitializeEmailTracking and
\* CheckForNewEmails, so its changes are placed between the process's steps
\* that read it.
BetweenReads == pc \in {"init", "first", "wait"}

\* The server usually hands out the next UID, but the order is not trusted:
\* one identifier below the initial ones may turn up late.
ArrivalUIDs == {Max(used \cup {FirstUID - 1}) + 1} \cup ({FirstUID - 1} \ used)

RemoveAt(s, i) == [j \in 1..(Len(s) - 1) |-> IF j < i THEN s[j] ELSE s[j + 1]]

\* The value a poll cycle returns (err, batch), with what the cycle did:
\*   new      the messages of the batch, in the batch's order
\*   fetched  the UIDs the fetch delivered, in delivery order
\*   judged   the UIDs the cycle found absent from notifiedUIDs
\*   init     the cycle delegated to InitializeEmailTracking
\*   fresh    LastUIDs was empty when the cycle started
\*   quiet    the previous cycle returned an empty batch and the mailbox has
\*            not changed since
\*   save     the cycle called saveStateWithLogging
\*   partial  the cycle's fetch failed after it had delivered messages
NoResult == [err |-> FALSE, batch |-> <<>>, new |-> <<>>, fetched |-> <<>>,
             judged |-> {}, init |-> FALSE, fresh |-> FALSE, quiet |-> FALSE,
             save |-> FALSE, partial |-> FALSE]

\* The ticker before time.NewTicker and after the process has gone.
NoTicker == [on |-> FALSE, C |-> <<>>]

\* No goroutine is in ResetState.
NoReset == [pc |-> "idle", data |-> <<>>, ok |-> FALSE, tracked |-> {}, present |-> {}]

\* The service is not installed.
NoService == "absent"

InitWith(sizes, events) ==
    /\ \E n \in sizes : mailbox = InitialMailbox(n)
    /\ used = {mailbox[i].uid : i \in DOMAIN mailbox}
    /\ pc = "boot"
    /\ ret = "none"
    /\ notifiedUIDs = {}
    /\ emailState = NewEmailState
    /\ fs = [p \in {statePath, tempFile} |-> NoFile]
    /\ saveData = <<>>
    /\ result = NoResult
    /\ hist = [once |-> {}, twice |-> {}, preexisting |-> {},
               committed |-> NewEmailState, quiet |-> FALSE,
               interrupted |-> FALSE, calls |-> 0, flights |-> 0,
               initErr |-> "none", emptyInit |-> FALSE, overlap |-> FALSE,
               saveFailed |-> FALSE, polled |-> FALSE, pending |-> {}]
    /\ budget = events
    /\ ticker = NoTicker
    /\ stop = FALSE
    /\ faults = TRUE
    /\ reset = NoReset
    /\ service = NoService
    /\ lastSeenDate = 0

Init == InitWith(InitSizes, MaxEvents)

\* A run over a mailbox that holds more messages than the baseline samples.
InitBig == InitWith({BigMailbox}, MaxEventsBig)

\* The history after message u has arrived: pending holds the messages that
\* arrived since the last poll cycle of this process that returned no error.
Arrived(u) ==
    [hist EXCEPT !.quiet = FALSE,
                 !.pending = IF hist.polled THEN @ \cup {u} ELSE @]

Arrive ==
    /\ BetweenReads
    /\ budget > 0
    /\ \E u \in ArrivalUIDs, d \in ArrivalDates :
        /\ u < FirstUID => d = LatestDate + 1
        /\ mailbox' = Append(mailbox, Msg(u, d))
        /\ used' = used \cup {u}
        /\ hist' = Arrived(u)
    /\ budget' = budget - 1
    /\ UNCHANGED <<pc, ret, notifiedUIDs, emailState, fs, saveData, result,
                   ticker, stop, faults, reset, service, lastSeenDate>>

Delete ==
    /\ BetweenReads
    /\ budget > 0
    /\ \E i \in DOMAIN mailbox : mailbox' = RemoveAt(mailbox, i)
    /\ budget' = budget - 1
    /\ hist' = [hist EXCEPT !.quiet = FALSE]
    /\ UNCHANGED <<used, pc, ret, notifiedUIDs, emailState, fs, saveData, result,
                   ticker, stop, faults, reset, service, lastSeenDate>>

(***************************************************************************)
(* NewImapChecker: load the state, seed notifiedUIDs from LastUIDs.  A     *)
(* load error ends the process (runEmailMonitor: log.Fatalf).              *)
(***************************************************************************)
\* Mutant: notifiedUIDs starts empty whatever the state file holds.
NewImapChecker_NoSeed ==
    /\ pc = "boot"
    /\ LET r == LoadEmailState(fs) IN
        IF r.err
        THEN /\ pc' = "fatal"
             /\ UNCHANGED <<emailState, notifiedUIDs>>
        ELSE /\ pc' = "init"
             /\ emailState' = r.state
             /\ notifiedUIDs' = {}
    /\ UNCHANGED <<mailbox, used, ret, fs, saveData, result, hist, budget,
                   ticker, stop, faults, reset, service, lastSeenDate>>

NewImapChecker ==
    /\ pc = "boot"
    /\ LET r == LoadEmailState(fs) IN
        IF r.err
        THEN /\ pc' = "fatal"
             /\ UNCHANGED <<emailState, notifiedUIDs>>
        ELSE /\ pc' = "init"
             /\ emailState' = r.state
             /\ notifiedUIDs' = Range(GetLastUIDs(r.state))
    /\ UNCHANGED <<mailbox, used, ret, fs, saveData, result, hist, budget,
                   ticker, stop, faults, reset, service, lastSeenDate>>

(***************************************************************************)
(* InitializeEmailTracking, as a function of the checker's state (nu, st), *)
(* the mailbox, the outcome of connect/select (conn), the outcome of the   *)
(* fetch (fo) and the order the date sort leaves the fetched messages in.  *)
(* Returns the error flag, the new state, and whether a save was started.  *)
(***************************************************************************)
ConnOutcomes == {"ok", "connect", "select"}

\* The outcomes of connect/Select and of a fetch in this run.
Conns == IF faults THEN ConnOutcomes ELSE {"ok"}

Fetches(req) == {x \in FetchOutcomes(req) : faults \/ ~x.err}

\* Mutant: the baseline marks the UIDs as notified but never adds them to
\* the state.
InitializeEmailTracking_NoAdd(nu, st, mb, conn, fo, sorted) ==
    LET same == [err |-> FALSE, why |-> "none", notified |-> nu, state |-> st,
                 save |-> FALSE, baselined |-> FALSE] IN
    IF nu # {} THEN same
    ELSE IF conn # "ok" THEN [same EXCEPT !.err = TRUE, !.why = conn]
    ELSE IF Len(mb) = 0 THEN [same EXCEPT !.save = TRUE]
    ELSE IF fo.err THEN [same EXCEPT !.err = TRUE,
                                    !.why = IF fo.delivered = <<>> THEN "fetch" ELSE "midfetch"]
    ELSE IF Len(fo.delivered) = 0 THEN same
    ELSE [err |-> FALSE,
          why |-> "none",
          notified |-> nu \cup Range(UIDsOf(sorted)),
          state |-> st,
          save |-> TRUE,
          baselined |-> TRUE]

\* Mutant: the messages are added to the state as they come off the channel,
\* before the fetch error is looked at.
InitializeEmailTracking_Eager(nu, st, mb, conn, fo, sorted) ==
    LET same == [err |-> FALSE, why |-> "none", notified |-> nu, state |-> st,
                 save |-> FALSE, baselined |-> FALSE] IN
    IF nu # {} THEN same
    ELSE IF conn # "ok" THEN [same EXCEPT !.err = TRUE, !.why = conn]
    ELSE IF Len(mb) = 0 THEN [same EXCEPT !.save = TRUE]
    ELSE IF fo.err
    THEN [same EXCEPT !.err = TRUE,
                      !.why = IF fo.delivered = <<>> THEN "fetch" ELSE "midfetch",
                      !.notified = nu \cup Range(UIDsOf(fo.delivered)),
                      !.state = AddUIDs(st, UIDsOf(fo.delivered))]
    ELSE IF Len(fo.delivered) = 0 THEN same
    ELSE [err |-> FALSE,
          why |-> "none",
          notified |-> nu \cup Range(UIDsOf(sorted)),
          state |-> AddUIDs(st, UIDsOf(sorted)),
          save |-> TRUE,
          baselined |-> TRUE]

\* why: which step failed ("connect", "select", "fetch" before any message
\* was delivered, "midfetch" after some were), "none" if none did; "panic"
\* when the first AddUID assigns to an entry of the nil map.
InitializeEmailTracking(nu, st, mb, conn, fo, sorted) ==
    LET same == [err |-> FALSE, why |-> "none", notified |-> nu, state |-> st,
                 save |-> FALSE, baselined |-> FALSE] IN
    IF nu # {} THEN same
    ELSE IF conn # "ok" THEN [same EXCEPT !.err = TRUE, !.why = conn]
    ELSE IF Len(mb) = 0 THEN [same EXCEPT !.save = TRUE]
    ELSE IF fo.err THEN [same EXCEPT !.err = TRUE,
                                    !.why = IF fo.delivered = <<>> THEN "fetch" ELSE "midfetch"]
    ELSE IF Len(fo.delivered) = 0 THEN same
    ELSE IF st.LastUIDs = NilMap THEN [same EXCEPT !.err = TRUE, !.why = "panic"]
    ELSE [err |-> FALSE,
          why |-> "none",
          notified |-> nu \cup Range(UIDsOf(sorted)),
          state |-> AddUIDs(st, UIDsOf(sorted)),
          save |-> TRUE,
          baselined |-> TRUE]

\* saveStateWithLogging: SaveEmailState marshals the state and starts writing.
StartSave(s, next) ==
    /\ saveData' = Marshal(s)
    /\ pc' = "write"
    /\ ret' = next

\* runEmailMonitor: the startup call, whose error is only logged.
StartupInit ==
    /\ pc = "init"
    /\ \E conn \in Conns, fo \in Fetches(Last(mailbox, numToFetch)) :
        \E sorted \in SortSlice(Range(fo.delivered)) :
          LET r == InitializeEmailTracking(notifiedUIDs, emailState, mailbox,
                                           conn, fo, sorted) IN
            /\ notifiedUIDs' = r.notified
            /\ emailState' = r.state
            /\ hist' = [hist EXCEPT
                          !.preexisting = IF r.baselined
                                          THEN @ \cup Range(UIDsOf(mailbox)) ELSE @,
                          !.initErr = r.why,
                          !.emptyInit = r.save /\ ~r.baselined,
                          !.flights = IF r.save THEN @ + 1 ELSE @]
            /\ IF r.save
               THEN StartSave(r.state, "first")
               ELSE /\ pc' = IF r.why = "panic" THEN "panic" ELSE "first"
                    /\ UNCHANGED <<ret, saveData>>
    /\ UNCHANGED <<mailbox, used, fs, result, budget, ticker, stop, faults, reset, service, lastSeenDate>>

(***************************************************************************)
(* CheckForNewEmails: one poll cycle, up to the point where it either      *)
(* returns or enters SaveEmailState.  The value it will return is result.  *)
(***************************************************************************)
Return(r) ==
    /\ result' = r
    /\ pc' = "deliver"
    /\ UNCHANGED <<ret, saveData>>

\* The history at the start of a cycle: q is the cycle's quiet mark, saving
\* whether the cycle goes on into SaveEmailState.
CycleHist(q, saving) ==
    [hist EXCEPT !.quiet = q, !.calls = 0, !.initErr = "none", !.overlap = FALSE,
                 !.flights = IF saving THEN @ + 1 ELSE @]

\* The history when a cycle returns without error.
Completed(h) == [h EXCEPT !.polled = TRUE, !.pending = {}]

\* connect or Select failed: return nil, err.
CheckAborted ==
    /\ \E conn \in Conns \ {"ok"} : Return([NoResult EXCEPT !.err = TRUE])
    /\ hist' = CycleHist(FALSE, FALSE)
    /\ UNCHANGED <<notifiedUIDs, emailState>>

\* Mutant: the cycle runs the baseline on the empty mailbox, which saves.
CheckEmptyMailbox_Baseline ==
    /\ Len(mailbox) = 0
    /\ result' = [NoResult EXCEPT !.init = TRUE, !.save = TRUE, !.quiet = hist.quiet]
    /\ StartSave(emailState, "deliver")
    /\ hist' = Completed(CycleHist(TRUE, TRUE))
    /\ UNCHANGED <<notifiedUIDs, emailState>>

\* mbox.Messages == 0: return the empty list.
CheckEmptyMailbox ==
    /\ Len(mailbox) = 0
    /\ Return([NoResult EXCEPT !.quiet = hist.quiet])
    /\ hist' = Completed(CycleHist(TRUE, FALSE))
    /\ UNCHANGED <<notifiedUIDs, emailState>>

\* highestKnownUID == 0: initialize the baseline instead of checking.
CheckBaseline ==
    /\ Len(mailbox) > 0
    /\ GetHighestUID(emailState) = 0
    /\ \E conn \in Conns, fo \in Fetches(Last(mailbox, numToFetch)) :
        \E sorted \in SortSlice(Range(fo.delivered)) :
          LET r == InitializeEmailTracking(notifiedUIDs, emailState, mailbox,
                                           conn, fo, sorted)
              res == [NoResult EXCEPT !.err = r.err, !.init = TRUE,
                                      !.fresh = GetLastUIDs(emailState) = <<>>,
                                      !.quiet = hist.quiet, !.save = r.save]
              c == CycleHist(~r.err, r.save)
              h == IF r.err THEN c ELSE Completed(c)
          IN
            /\ notifiedUIDs' = r.notified
            /\ emailState' = r.state
            /\ hist' = [h EXCEPT
                          !.preexisting = IF r.baselined
                                          THEN @ \cup Range(UIDsOf(mailbox)) ELSE @,
                          !.initErr = r.why,
                          !.overlap = (notifiedUIDs = {} /\ conn # "connect")]
            /\ result' = res
            /\ IF r.save
               THEN StartSave(r.state, "deliver")
               ELSE /\ pc' = IF r.why = "panic" THEN "panic" ELSE "deliver"
                    /\ UNCHANGED <<ret, saveData>>

\* Fetch the trailing numToCheck messages; every one whose UID is not in
\* notifiedUIDs is new.  The state is updated while the channel is drained,
\* the fetch error is looked at afterwards.
CheckScan ==
    /\ Len(mailbox) > 0
    /\ GetHighestUID(emailState) # 0
    /\ \E fo \in Fetches(Last(mailbox, numToCheck)) :
        LET newEmails == SelectNew(fo.delivered, notifiedUIDs)
            st == AddUIDs(emailState, UIDsOf(newEmails))
            stateChanged == newEmails # <<>>
        IN
          /\ notifiedUIDs' = notifiedUIDs \cup Range(UIDsOf(newEmails))
          /\ emailState' = st
          /\ IF fo.err
             THEN /\ Return([NoResult EXCEPT !.err = TRUE,
                                             !.fetched = UIDsOf(fo.delivered),
                                             !.judged = Range(UIDsOf(newEmails)),
                                             !.partial = fo.delivered # <<>>])
                  /\ hist' = CycleHist(FALSE, FALSE)
             ELSE \E sorted \in SortSlice(Range(newEmails)) :
                  /\ result' = [err |-> FALSE,
                                batch |-> SubjectsOf(sorted),
                                new |-> sorted,
                                fetched |-> UIDsOf(fo.delivered),
                                judged |-> Range(UIDsOf(newEmails)),
                                init |-> FALSE,
                                fresh |-> GetLastUIDs(emailState) = <<>>,
                                quiet |-> hist.quiet,
                                save |-> stateChanged,
                                partial |-> FALSE]
                  /\ hist' = Completed(CycleHist(sorted = <<>>, stateChanged))
                  /\ IF stateChanged
                     THEN StartSave(st, "deliver")
                     ELSE /\ pc' = "deliver"
                          /\ UNCHANGED <<ret, saveData>>

\* Mutant: every tick starts a cycle of its own (go ic.CheckForNewEmails()),
\* whatever the previous one is doing.
CycleMayStart_Overlap ==
    \/ pc = "first"
    \/ pc \in {"wait", "write", "rename"} /\ ticker.on /\ ticker.C # <<>>

\* Mutant: the first check waits for a tick like the others.
CycleMayStart_AfterTick == pc \in {"first", "wait"} /\ ticker.C # <<>>

\* StartChecking calls CheckForNewEmails once right away, and then each time
\* it receives from ticker.C.
CycleMayStart ==
    \/ pc = "first"
    \/ pc = "wait" /\ ticker.C # <<>>

CheckForNewEmails ==
    /\ CycleMayStart
    /\ ticker' = IF pc = "first" THEN ticker ELSE [ticker EXCEPT !.C = Tail(@)]
    /\ \/ CheckAborted
       \/ CheckEmptyMailbox
       \/ CheckBaseline
       \/ CheckScan
    /\ UNCHANGED <<mailbox, used, fs, budget, stop, faults, reset, service, lastSeenDate>>

(***************************************************************************)
(* SaveEmailState: WriteFile(tempFile), then Rename(tempFile, path).  An   *)
(* error of either is returned, logged by saveStateWithLogging, and the    *)
(* caller goes on.                                                         *)
(***************************************************************************)
\* What an interrupted write leaves: a part of the data (every strict prefix
\* of a document is an incomplete document; one stands for all).
Prefixes(d) == {Prefix(d, Len(d) \div 2)}

\* Mutant: a write that failed is tried again.
WriteFile_Retry ==
    /\ pc = "write"
    /\ \/ /\ fs' = [fs EXCEPT ![tempFile] = File(saveData)]
          /\ pc' = "rename"
       \/ /\ faults
          /\ \E d \in Prefixes(saveData) : fs' = [fs EXCEPT ![tempFile] = File(d)]
          /\ pc' = "write"
    /\ UNCHANGED <<mailbox, used, ret, notifiedUIDs, emailState, saveData, result,
                   hist, budget, ticker, stop, faults, reset, service, lastSeenDate>>

WriteFile ==
    /\ pc = "write"
    /\ \/ /\ fs' = [fs EXCEPT ![tempFile] = File(saveData)]
          /\ pc' = "rename"
          /\ UNCHANGED <<ret, saveData, hist>>
       \/ /\ faults
          /\ \/ fs' = fs
             \/ \E d \in Prefixes(saveData) : fs' = [fs EXCEPT ![tempFile] = File(d)]
          /\ pc' = ret
          /\ ret' = "none"
          /\ saveData' = <<>>
          /\ hist' = [hist EXCEPT !.flights = @ - 1, !.saveFailed = TRUE]
    /\ UNCHANGED <<mailbox, used, notifiedUIDs, emailState, result, budget,
                   ticker, stop, faults, reset, service, lastSeenDate>>

RenameFile ==
    /\ pc = "rename"
    /\ \/ /\ fs[tempFile].exists
          /\ fs' = Rename(fs, tempFile, statePath)
          /\ hist' = [hist EXCEPT !.committed = Unmarshal(fs[tempFile].data).state,
                                   !.flights = @ - 1]
       \/ /\ faults \/ ~fs[tempFile].exists
          /\ fs' = fs
          /\ hist' = [hist EXCEPT !.flights = @ - 1, !.saveFailed = TRUE]
    /\ pc' = ret
    /\ ret' = "none"
    /\ saveData' = <<>>
    /\ UNCHANGED <<mailbox, used, notifiedUIDs, emailState, result, budget,
                   ticker, stop, faults, reset, service, lastSeenDate>>

(***************************************************************************)
(* StartChecking: what the loop does with the value CheckForNewEmails      *)
(* returned, then it waits for the next tick.  The ticker is created when  *)
(* the initial check has been dealt with.                                  *)
(***************************************************************************)
\* Mutant: the callback is invoked after every check that returned no error.
ShouldNotify_NoCheck(r) == ~r.err

\* err == nil and len(newEmails) > 0.
ShouldNotify(r) == ~r.err /\ Len(r.batch) > 0

Deliver ==
    /\ pc = "deliver"
    /\ IF ShouldNotify(result)
       THEN LET uids == Range(UIDsOf(result.new)) IN
            hist' = [hist EXCEPT !.once = @ \cup uids,
                                 !.twice = @ \cup (hist.once \cap uids),
                                 !.calls = 1]
       ELSE UNCHANGED hist
    /\ result' = NoResult
    /\ pc' = "wait"
    /\ ticker' = IF ticker.on THEN ticker ELSE [on |-> TRUE, C |-> <<>>]
    /\ UNCHANGED <<mailbox, used, ret, notifiedUIDs, emailState, fs, saveData, budget,
                   stop, faults, reset, service, lastSeenDate>>

(***************************************************************************)
(* time.Ticker: the runtime sends on C when an interval has elapsed and    *)
(* drops the tick when C's buffer is full.  The value sent is the time of  *)
(* the tick, kept here as whether a poll cycle was in flight at that time. *)
(***************************************************************************)
\* time.NewTicker makes C with a buffer of one.
TickerBuffer == 1

Tick ==
    /\ ticker.on
    /\ ticker' = IF Len(ticker.C) < TickerBuffer
                 THEN [ticker EXCEPT !.C = Append(@, hist.flights > 0)]
                 ELSE ticker
    /\ UNCHANGED <<mailbox, used, pc, ret, notifiedUIDs, emailState, fs, saveData,
                   result, hist, budget, stop, faults, reset, service, lastSeenDate>>

(***************************************************************************)
(* The process dies (crash, kill, power loss) and is started again.  A     *)
(* WriteFile in progress leaves whatever part of the data it had written.  *)
(***************************************************************************)
Crash ==
    /\ pc \notin {"boot", "fatal", "panic", "exited"}
    /\ budget > 0
    /\ IF pc = "write"
       THEN \/ fs' = fs
            \/ \E d \in Prefixes(saveData) \cup {saveData} :
                 fs' = [fs EXCEPT ![tempFile] = File(d)]
       ELSE fs' = fs
    /\ pc' = "boot"
    /\ ret' = "none"
    /\ notifiedUIDs' = {}
    /\ emailState' = NewEmailState
    /\ saveData' = <<>>
    /\ result' = NoResult
    /\ hist' = [hist EXCEPT !.quiet = FALSE,
                             !.interrupted = @ \/ pc \in {"write", "rename"},
                             !.calls = 0, !.flights = 0, !.initErr = "none",
                             !.emptyInit = FALSE, !.overlap = FALSE,
                             !.saveFailed = FALSE, !.polled = FALSE,
                             !.pending = {}]
    /\ budget' = budget - 1
    /\ ticker' = NoTicker
    /\ stop' = FALSE
    /\ reset' = NoReset
    /\ UNCHANGED <<mailbox, used, faults, service, lastSeenDate>>

(***************************************************************************)
(* runEmailMonitor after StartChecking: it blocks on sigChan; when SIGINT  *)
(* or SIGTERM arrives it logs and returns, and the process ends with it,   *)
(* whatever the goroutine of StartChecking is doing.                       *)
(***************************************************************************)
\* The goroutine of StartChecking is running.
Checking == pc \in {"first", "wait", "deliver"} \/ (pc \in {"write", "rename"} /\ ret = "deliver")

Stop ==
    /\ Checking
    /\ ~stop
    /\ budget > 0
    /\ stop' = TRUE
    /\ budget' = budget - 1
    /\ UNCHANGED <<mailbox, used, pc, ret, notifiedUIDs, emailState, fs, saveData,
                   result, hist, ticker, faults, reset, service, lastSeenDate>>

Exit ==
    /\ stop
    /\ pc \notin {"panic", "exited"}
    /\ IF pc = "write"
       THEN \/ fs' = fs
            \/ \E d \in Prefixes(saveData) \cup {saveData} :
                 fs' = [fs EXCEPT ![tempFile] = File(d)]
       ELSE fs' = fs
    /\ pc' = "exited"
    /\ ret' = "none"
    /\ notifiedUIDs' = {}
    /\ emailState' = NewEmailState
    /\ saveData' = <<>>
    /\ result' = NoResult
    /\ hist' = [hist EXCEPT !.quiet = FALSE,
                             !.interrupted = @ \/ pc \in {"write", "rename"},
                             !.emptyInit = FALSE, !.overlap = FALSE,
                             !.polled = FALSE, !.pending = {}]
    /\ ticker' = NoTicker
    /\ reset' = NoReset
    /\ UNCHANGED <<mailbox, used, budget, stop, faults, service, lastSeenDate>>

Next ==
    \/ Arrive
    \/ Delete
    \/ NewImapChecker
    \/ StartupInit
    \/ CheckForNewEmails
    \/ WriteFile
    \/ RenameFile
    \/ Deliver
    \/ Tick
    \/ Crash
    \/ Stop
    \/ Exit

Spec == Init /\ [][Next]_vars

SpecBig == InitBig /\ [][Next]_vars

(***************************************************************************)
(* A run of the program over whatever the state file holds when it starts: *)
(* nothing, a state the program wrote, a document without a "last_uids"    *)
(* object, the state of the date-tracking version, an incomplete document. *)
(***************************************************************************)
StoredDocuments ==
    {Marshal(NewEmailState),
     Marshal([LastUIDs |-> [k \in {mailboxName} |-> <<FirstUID>>]]),
     <<NULL>>,
     <<LBRACE, RBRACE>>,
     <<LBRACE, KeyLastUIDs, NULL, RBRACE>>,
     <<LBRACE, KeyLastSeenDates, LBRACE, KeyMailbox, 1, RBRACE, RBRACE>>,
     <<LBRACE, KeyLastUIDs>>}

InitLoad ==
    /\ \E n \in InitSizes : mailbox = InitialMailbox(n)
    /\ used = {mailbox[i].uid : i \in DOMAIN mailbox}
    /\ pc = "boot"
    /\ ret = "none"
    /\ notifiedUIDs = {}
    /\ emailState = NewEmailState
    /\ \E f \in {NoFile} \cup {File(d) : d \in StoredDocuments} :
         fs = [p \in {statePath, tempFile} |-> IF p = statePath THEN f ELSE NoFile]
    /\ saveData = <<>>
    /\ result = NoResult
    /\ hist = [once |-> {}, twice |-> {}, preexisting |-> {},
               committed |-> LoadEmailState(fs).state, quiet |-> FALSE,
               interrupted |-> FALSE, calls |-> 0, flights |-> 0,
               initErr |-> "none", emptyInit |-> FALSE, overlap |-> FALSE,
               saveFailed |-> FALSE, polled |-> FALSE, pending |-> {}]
    /\ budget = MaxEventsLoad
    /\ ticker = NoTicker
    /\ stop = FALSE
    /\ faults = TRUE
    /\ reset = NoReset
    /\ service = NoService
    /\ lastSeenDate = 0

SpecLoad == InitLoad /\ [][Next]_vars

(***************************************************************************)
(* A short run: one environment event.                                     *)
(***************************************************************************)
InitShort == InitWith({SmallMailbox}, MaxEventsShort)

SpecShort == InitShort /\ [][Next]_vars

(***************************************************************************)
(* The scheduler alone, over a mailbox that does not change, until the     *)
(* signal ends the process, with the fairness the loop's code gives: the   *)
(* goroutine of StartChecking goes on with its next statement              *)
(* (connections, fetches and file operations return, with or without an    *)
(* error), and the ticker goes on firing.                                  *)
(***************************************************************************)
Loop ==
    \/ NewImapChecker
    \/ StartupInit
    \/ CheckForNewEmails
    \/ WriteFile
    \/ RenameFile
    \/ Deliver

NextLive ==
    \/ Loop
    \/ Tick
    \/ Stop
    \/ Exit

SpecLive == InitShort /\ [][NextLive]_vars /\ WF_vars(Loop) /\ WF_vars(Tick)

(***************************************************************************)
(* A long run over a mailbox whose first message stays while the messages  *)
(* after it come and go: each new message is polled, then expunged when    *)
(* the next one arrives.  Nothing fails in this run.                       *)
(***************************************************************************)
InitChurn ==
    /\ mailbox = InitialMailbox(1)
    /\ used = {mailbox[i].uid : i \in DOMAIN mailbox}
    /\ pc = "boot"
    /\ ret = "none"
    /\ notifiedUIDs = {}
    /\ emailState = NewEmailState
    /\ fs = [p \in {statePath, tempFile} |-> NoFile]
    /\ saveData = <<>>
    /\ result = NoResult
    /\ hist = [once |-> {}, twice |-> {}, preexisting |-> {},
               committed |-> NewEmailState, quiet |-> FALSE,
               interrupted |-> FALSE, calls |-> 0, flights |-> 0,
               initErr |-> "none", emptyInit |-> FALSE, overlap |-> FALSE,
               saveFailed |-> FALSE, polled |-> FALSE, pending |-> {}]
    /\ budget = MaxChurn
    /\ ticker = NoTicker
    /\ stop = FALSE
    /\ faults = FALSE
    /\ reset = NoReset
    /\ service = NoService
    /\ lastSeenDate = 0

\* The newest message has been polled; it is expunged (unless it is the
\* first message) and a new message arrives.
Churn ==
    /\ pc = "wait"
    /\ budget > 0
    /\ mailbox[Len(mailbox)].uid \in notifiedUIDs
    /\ LET u == Max(used) + 1 IN
        /\ mailbox' = <<mailbox[1], Msg(u, LatestDate + 1)>>
        /\ used' = used \cup {u}
        /\ hist' = Arrived(u)
    /\ budget' = budget - 1
    /\ UNCHANGED <<pc, ret, notifiedUIDs, emailState, fs, saveData, result,
                   ticker, stop, faults, reset, service, lastSeenDate>>

NextChurn ==
    \/ Churn
    \/ NewImapChecker
    \/ StartupInit
    \/ CheckForNewEmails
    \/ WriteFile
    \/ RenameFile
    \/ Deliver
    \/ Tick

SpecChurn == InitChurn /\ [][NextChurn]_vars

(***************************************************************************)
(* The same long run, but the first message that arrives stays as well:    *)
(* a message that a cycle has returned is still fetched by every later     *)
(* cycle, also when its UID has left the list of the last 100.             *)
(***************************************************************************)
ChurnKeep ==
    /\ pc = "wait"
    /\ budget > 0
    /\ mailbox[Len(mailbox)].uid \in notifiedUIDs
    /\ LET u == Max(used) + 1 IN
        /\ mailbox' = Prefix(mailbox, IF Len(mailbox) < 2 THEN Len(mailbox) ELSE 2)
                          \o <<Msg(u, LatestDate + 1)>>
        /\ used' = used \cup {u}
        /\ hist' = Arrived(u)
    /\ budget' = budget - 1
    /\ UNCHANGED <<pc, ret, notifiedUIDs, emailState, fs, saveData, result,
                   ticker, stop, faults, reset, service, lastSeenDate>>

NextKeep ==
    \/ ChurnKeep
    \/ NewImapChecker
    \/ StartupInit
    \/ CheckForNewEmails
    \/ WriteFile
    \/ RenameFile
    \/ Deliver
    \/ Tick

SpecKeep == InitChurn /\ [][NextKeep]_vars

(***************************************************************************)
(* The window alone: AddUID applied to a stream of identifiers.  The       *)
(* stream is 1 + (start + k*stride) mod IdModulus for k = 0, 1, ...: its   *)
(* identifiers are distinct and, where it wraps, not increasing.  hist     *)
(* records the distinct identifiers in the order they were first inserted. *)
(***************************************************************************)
StreamStarts == {0, IdModulus \div 2, IdModulus - 20}

StreamId(gen, k) ==
    1 + ((gen.start + (IF gen.down THEN IdModulus - 1 ELSE 1) * k) % IdModulus)

InitWindow ==
    /\ mailbox = <<>>
    /\ used = {}
    /\ pc = "window"
    /\ ret = "none"
    /\ notifiedUIDs = {}
    /\ emailState = NewEmailState
    /\ fs = [p \in {statePath, tempFile} |-> NoFile]
    /\ saveData = <<>>
    /\ result = NoResult
    /\ \E st \in StreamStarts, dn \in BOOLEAN :
         hist = [inserted |-> <<>>, gen |-> [start |-> st, down |-> dn]]
    /\ budget = 0
    /\ ticker = NoTicker
    /\ stop = FALSE
    /\ faults = FALSE
    /\ reset = NoReset
    /\ service = NoService
    /\ lastSeenDate = 0

\* AddUID of an identifier that was not inserted before.
AddFresh ==
    /\ pc = "window"
    /\ Len(hist.inserted) < MaxInserts
    /\ LET uid == StreamId(hist.gen, Len(hist.inserted)) IN
        /\ emailState' = AddUID(emailState, uid)
        /\ hist' = [hist EXCEPT !.inserted = Append(@, uid)]
    /\ UNCHANGED <<mailbox, used, pc, ret, notifiedUIDs, fs, saveData, result, budget,
                   ticker, stop, faults, reset, service, lastSeenDate>>

\* AddUID of an identifier that is in the list.
AddAgain ==
    /\ pc = "window"
    /\ \E uid \in Range(GetLastUIDs(emailState)) :
         emailState' = AddUID(emailState, uid)
    /\ UNCHANGED <<mailbox, used, pc, ret, notifiedUIDs, fs, saveData, result,
                   hist, budget, ticker, stop, faults, reset, service, lastSeenDate>>

NextWindow == AddFresh \/ AddAgain

SpecWindow == InitWindow /\ [][NextWindow]_vars

(***************************************************************************)
(* ResetState, called by a goroutine of its own while StartChecking runs   *)
(* (the loop of StartChecking never returns, and the checker has no lock): *)
(* it clears notifiedUIDs and emailState, saves, runs                      *)
(* InitializeEmailTracking, which saves again.  Its steps interleave with  *)
(* those of the poll cycle; both write the same temporary file.  reset     *)
(* also records the UIDs tracked when ResetState began and the UIDs that   *)
(* were in the mailbox when its InitializeEmailTracking ran.               *)
(***************************************************************************)
ResetState ==
    /\ reset.pc = "idle"
    /\ Checking
    /\ notifiedUIDs' = {}
    /\ emailState' = NewEmailState
    /\ reset' = [pc |-> "write1", data |-> Marshal(NewEmailState), ok |-> FALSE,
                 tracked |-> notifiedUIDs \cup Range(GetLastUIDs(emailState))
                             \cup Range(GetLastUIDs(LoadEmailState(fs).state)),
                 present |-> {}]
    /\ UNCHANGED <<mailbox, used, pc, ret, fs, saveData, result, hist, budget,
                   ticker, stop, faults, service, lastSeenDate>>

\* Where ResetState goes on when the save it is in has returned.
AfterResetSave == IF reset.pc \in {"write1", "rename1"} THEN "init" ELSE "done"

ResetWriteFile ==
    /\ reset.pc \in {"write1", "write2"}
    /\ \/ /\ fs' = [fs EXCEPT ![tempFile] = File(reset.data)]
          /\ reset' = [reset EXCEPT !.pc = IF @ = "write1" THEN "rename1" ELSE "rename2"]
          /\ UNCHANGED hist
       \/ /\ faults
          /\ \/ fs' = fs
             \/ \E d \in Prefixes(reset.data) : fs' = [fs EXCEPT ![tempFile] = File(d)]
          /\ reset' = [reset EXCEPT !.pc = AfterResetSave, !.data = <<>>]
          /\ hist' = [hist EXCEPT !.saveFailed = TRUE]
    /\ UNCHANGED <<mailbox, used, pc, ret, notifiedUIDs, emailState, saveData, result,
                   budget, ticker, stop, faults, service, lastSeenDate>>

ResetRenameFile ==
    /\ reset.pc \in {"rename1", "rename2"}
    /\ \/ /\ fs[tempFile].exists
          /\ fs' = Rename(fs, tempFile, statePath)
          /\ hist' = [hist EXCEPT !.committed = Unmarshal(fs[tempFile].data).state]
       \/ /\ faults \/ ~fs[tempFile].exists
          /\ fs' = fs
          /\ hist' = [hist EXCEPT !.saveFailed = TRUE]
    /\ reset' = [reset EXCEPT !.pc = AfterResetSave, !.data = <<>>]
    /\ UNCHANGED <<mailbox, used, pc, ret, notifiedUIDs, emailState, saveData, result,
                   budget, ticker, stop, faults, service, lastSeenDate>>

ResetInit ==
    /\ reset.pc = "init"
    /\ \E conn \in Conns, fo \in Fetches(Last(mailbox, numToFetch)) :
        \E sorted \in SortSlice(Range(fo.delivered)) :
          LET r == InitializeEmailTracking(notifiedUIDs, emailState, mailbox,
                                           conn, fo, sorted) IN
            /\ notifiedUIDs' = r.notified
            /\ emailState' = r.state
            /\ hist' = [hist EXCEPT
                          !.preexisting = IF r.baselined
                                          THEN @ \cup Range(UIDsOf(mailbox)) ELSE @]
            /\ reset' = [reset EXCEPT
                           !.pc = IF r.save THEN "write2" ELSE "done",
                           !.data = IF r.save THEN Marshal(r.state) ELSE <<>>,
                           !.ok = ~r.err,
                           !.present = Range(UIDsOf(mailbox))]
    /\ UNCHANGED <<mailbox, used, pc, ret, fs, saveData, result, budget, ticker, stop,
                   faults, service, lastSeenDate>>

NextReset ==
    \/ Next
    \/ ResetState
    \/ ResetWriteFile
    \/ ResetRenameFile
    \/ ResetInit

InitReset == InitWith({SmallMailbox}, MaxEventsReset)

SpecReset == InitReset /\ [][NextReset]_vars

(***************************************************************************)
(* The date-tracking state of the storage package: LastSeenDates maps a    *)
(* mailbox to the InternalDate of the last seen email.  Dates are instants *)
(* 1..MaxDate; hist lists the calls made.                                  *)
(***************************************************************************)
DateMailboxes == {mailboxName, "Sent"}

NewDateState == [LastSeenDates |-> [k \in {} |-> 0]]

\* Mutant: any date that differs from the stored one counts as later.
After_Differs(a, b) == a # b

\* time.Time.After
After(a, b) == a > b

UpdateLastSeenDate(s, mb, date) ==
    IF mb \notin DOMAIN s.LastSeenDates \/ After(date, s.LastSeenDates[mb])
    THEN [LastSeenDates |-> [k \in DOMAIN s.LastSeenDates \cup {mb} |->
                               IF k = mb THEN date ELSE s.LastSeenDates[k]]]
    ELSE s

InitDates ==
    /\ mailbox = <<>>
    /\ used = {}
    /\ pc = "dates"
    /\ ret = "none"
    /\ notifiedUIDs = {}
    /\ emailState = NewDateState
    /\ fs = [p \in {statePath, tempFile} |-> NoFile]
    /\ saveData = <<>>
    /\ result = NoResult
    /\ hist = [offered |-> <<>>]
    /\ budget = 0
    /\ ticker = NoTicker
    /\ stop = FALSE
    /\ faults = FALSE
    /\ reset = NoReset
    /\ service = NoService
    /\ lastSeenDate = 0

UpdateDate ==
    /\ pc = "dates"
    /\ Len(hist.offered) < MaxUpdates
    /\ \E mb \in DateMailboxes, d \in 1..MaxDate :
        /\ emailState' = UpdateLastSeenDate(emailState, mb, d)
        /\ hist' = [offered |-> Append(hist.offered, [mailbox |-> mb, date |-> d])]
    /\ UNCHANGED <<mailbox, used, pc, ret, notifiedUIDs, fs, saveData, result, budget,
                   ticker, stop, faults, reset, service, lastSeenDate>>

NextDates == UpdateDate

SpecDates == InitDates /\ [][NextDates]_vars

(***************************************************************************)
(* The command line and the Windows service.  main parses the flags and,   *)
(* when -service is set, hands os.Args[1:] to runAsWindowsService.  hist   *)
(* holds the command line of the run, the status of the service before it  *)
(* and the control operations the run performed.                           *)
(***************************************************************************)
ServiceActions == {"install", "uninstall", "start", "stop"}

CommandLines ==
    UNION {[1..n -> ServiceActions \cup {"-service", "-background"}] : n \in 0..MaxArgs}

IsFlag(w) == w \in {"-service", "-background"}

\* flag.Parse: the boolean flags that are set.  Parsing stops at the first
\* argument that is not a flag; a boolean flag takes no argument.
RECURSIVE ParseFlags(_)
ParseFlags(args) ==
    IF args = <<>> \/ ~IsFlag(Head(args))
    THEN {}
    ELSE {Head(args)} \cup ParseFlags(Tail(args))

\* service.Control: the operation on the service, an error when the service
\* is not in a state that allows it.
Control(status, action) ==
    LET to == CASE action = "install"   -> [from |-> {"absent"}, status |-> "stopped"]
                [] action = "uninstall" -> [from |-> {"stopped", "running"}, status |-> "absent"]
                [] action = "start"     -> [from |-> {"stopped"}, status |-> "running"]
                [] action = "stop"      -> [from |-> {"running"}, status |-> "stopped"]
    IN IF status \in to.from
       THEN [ops |-> <<action>>, status |-> to.status, fatal |-> FALSE]
       ELSE [ops |-> <<action>>, status |-> status, fatal |-> TRUE]

\* installAndStart is true.  The operations performed, the status of the
\* service afterwards, and whether the run ended in log.Fatalf.
runAsWindowsService(status, serviceArgs) ==
    IF Len(serviceArgs) > 0 /\ serviceArgs[1] \in ServiceActions
    THEN Control(status, serviceArgs[1])
    ELSE LET install == IF status = "absent" THEN <<"install">> ELSE <<>>
             start == IF status # "running" THEN <<"start">> ELSE <<>>
         IN [ops |-> install \o start, status |-> "running", fatal |-> FALSE]

InitService ==
    /\ mailbox = <<>>
    /\ used = {}
    /\ pc = "shell"
    /\ ret = "none"
    /\ notifiedUIDs = {}
    /\ emailState = NewEmailState
    /\ fs = [p \in {statePath, tempFile} |-> NoFile]
    /\ saveData = <<>>
    /\ result = NoResult
    /\ hist = [args |-> <<>>, before |-> NoService, ops |-> <<>>, fatal |-> FALSE, runs |-> 0]
    /\ budget = 0
    /\ ticker = NoTicker
    /\ stop = FALSE
    /\ faults = FALSE
    /\ reset = NoReset
    /\ service \in {"absent", "stopped", "running"}
    /\ lastSeenDate = 0

\* The user runs the program with a command line.
Invoke ==
    /\ pc = "shell"
    /\ hist.runs < MaxRuns
    /\ \E args \in CommandLines :
         hist' = [args |-> args, before |-> service, ops |-> <<>>, fatal |-> FALSE,
                  runs |-> hist.runs + 1]
    /\ pc' = "main"
    /\ UNCHANGED <<mailbox, used, ret, notifiedUIDs, emailState, fs, saveData, result,
                   budget, ticker, stop, faults, reset, service, lastSeenDate>>

\* main: flag.Parse, then the service mode if -service is set (the other
\* modes run the monitor and do not touch the service).
Main ==
    /\ pc = "main"
    /\ IF "-service" \in ParseFlags(hist.args)
       THEN LET r == runAsWindowsService(service, hist.args) IN
            /\ service' = r.status
            /\ hist' = [hist EXCEPT !.ops = r.ops, !.fatal = r.fatal]
       ELSE UNCHANGED <<service, hist>>
    /\ pc' = "shell"
    /\ UNCHANGED <<mailbox, used, ret, notifiedUIDs, emailState, fs, saveData, result,
                   budget, ticker, stop, faults, reset, lastSeenDate>>

NextService == Invoke \/ Main

SpecService == InitService /\ [][NextService]_vars

(***************************************************************************)
(* The date-tracking checker: the ImapChecker that keeps lastSeenDate,     *)
(* over the EmailState of storage.go (LastSeenDates).  A date is a natural *)
(* number, 0 is the zero time.                                             *)
(***************************************************************************)
MaxDateEvents == 2      \* arrivals, expunges and restarts in a run
MaxMsgDate == 3         \* the latest InternalDate of an arriving message
MaxResets == 1          \* calls of ResetState in a run

\* EmailState.GetLastSeenDate: the zero time if no date is stored.
GetLastSeenDate(s, mb) ==
    IF mb \in DOMAIN s.LastSeenDates THEN s.LastSeenDates[mb] ELSE 0

\* json.MarshalIndent of the date-tracking state.
MarshalDates(s) ==
    IF mailboxName \in DOMAIN s.LastSeenDates
    THEN <<LBRACE, KeyLastSeenDates, LBRACE, KeyMailbox,
           s.LastSeenDates[mailboxName], RBRACE, RBRACE>>
    ELSE <<LBRACE, KeyLastSeenDates, LBRACE, RBRACE, RBRACE>>

\* json.Unmarshal into a zero date-tracking EmailState.
UnmarshalDates(d) ==
    IF d = <<LBRACE, KeyLastSeenDates, LBRACE, RBRACE, RBRACE>>
    THEN [err |-> FALSE, state |-> NewDateState]
    ELSE IF /\ Len(d) = 7
            /\ SubSeq(d, 1, 4) = <<LBRACE, KeyLastSeenDates, LBRACE, KeyMailbox>>
            /\ d[5] >= 0
            /\ SubSeq(d, 6, 7) = <<RBRACE, RBRACE>>
    THEN [err |-> FALSE,
          state |-> [LastSeenDates |-> [k \in {mailboxName} |-> d[5]]]]
    ELSE [err |-> TRUE, state |-> NewDateState]

\* storage.LoadEmailState of the date-tracking state.
LoadDateState(f) ==
    IF ~f[statePath].exists
    THEN [err |-> FALSE, state |-> NewDateState]
    ELSE UnmarshalDates(f[statePath].data)

\* storage.SaveEmailState of the date-tracking state: the files afterwards
\* and whether it returned an error (the write failed, or the rename failed
\* and left the temporary file).
SaveDateState(f, s) ==
    LET data == MarshalDates(s)
        written == [f EXCEPT ![tempFile] = File(data)]
    IN {[fs |-> Rename(written, tempFile, statePath), err |-> FALSE]}
       \cup IF faults
            THEN {[fs |-> f, err |-> TRUE], [fs |-> written, err |-> TRUE]}
            ELSE {}

\* The checker's fields and the files, as one value c:
\* [lastSeenDate, emailState, fs].
Checker == [lastSeenDate |-> lastSeenDate, emailState |-> emailState, fs |-> fs]

\* saveStateWithLogging: UpdateLastSeenDate with lastSeenDate, then
\* SaveEmailState, whose error is logged.
DateSaveStateWithLogging(c) ==
    LET s == UpdateLastSeenDate(c.emailState, mailboxName, c.lastSeenDate) IN
    {[lastSeenDate |-> c.lastSeenDate, emailState |-> s, fs |-> o.fs,
      saved |-> ~o.err] : o \in SaveDateState(c.fs, s)}

\* What InitializeEmailTracking or CheckForNewEmails leaves without a save.
Unsaved(c) == [lastSeenDate |-> c.lastSeenDate, emailState |-> c.emailState,
               fs |-> c.fs, saved |-> FALSE]

\* InitializeEmailTracking: nothing when lastSeenDate is set; else the date
\* of the last message becomes lastSeenDate and is saved.  The outcomes:
\* the checker afterwards, the error returned, whether a baseline was set.
DateInitializeEmailTracking(c, mbox) ==
    IF c.lastSeenDate # 0
    THEN {[c |-> Unsaved(c), err |-> FALSE, baselined |-> FALSE]}
    ELSE UNION {
        IF conn # "ok"
        THEN {[c |-> Unsaved(c), err |-> TRUE, baselined |-> FALSE]}
        ELSE IF Len(mbox) = 0
        THEN {[c |-> x, err |-> FALSE, baselined |-> FALSE] :
                x \in DateSaveStateWithLogging(c)}
        ELSE UNION {
            IF fo.err
            THEN {[c |-> Unsaved(c), err |-> TRUE, baselined |-> FALSE]}
            ELSE IF fo.delivered = <<>>
            THEN {[c |-> x, err |-> FALSE, baselined |-> FALSE] :
                    x \in DateSaveStateWithLogging(c)}
            ELSE {[c |-> x, err |-> FALSE, baselined |-> TRUE] :
                    x \in DateSaveStateWithLogging(
                            [c EXCEPT !.lastSeenDate =
                                fo.delivered[Len(fo.delivered)].date])}
            : fo \in Fetches(Last(mbox, 1))}
        : conn \in Conns}

\* c.Search with criteria.Since: the messages the server finds, in sequence
\* order.  SINCE compares days, so the server returns every message dated
\* at or after the date and possibly earlier ones of the same day.
Searches(mbox, since) ==
    {SelectSeq(mbox, LAMBDA m : m.date >= since), mbox}

\* msg.InternalDate.After(ic.lastSeenDate)
IsNewDate(m, since) == After(m.date, since)

\* The value CheckForNewEmails returns, with what the cycle did: start is
\* lastSeenDate when the cycle was entered, fetched the messages the fetch
\* delivered, new the messages of the batch in the batch's order.
DateResult(c, start, e, fetched, new) ==
    [c |-> c, err |-> e, start |-> start, fetched |-> fetched, new |-> new,
     batch |-> SubjectsOf(new)]

\* The cycle after connect, Select and the baseline it may have run first:
\* search, fetch, keep what is strictly after lastSeenDate, sort, move
\* lastSeenDate to the latest date kept and save.
DateScan(c, start, mbox) ==
    UNION {
      IF searchErr
      THEN {DateResult(c, start, TRUE, <<>>, <<>>)}
      ELSE UNION {
        IF found = <<>>
        THEN {DateResult(c, start, FALSE, <<>>, <<>>)}
        ELSE UNION {
          LET fetchedEmails == SelectSeq(fo.delivered,
                                         LAMBDA m : IsNewDate(m, c.lastSeenDate))
              currentMaxDate == Max({c.lastSeenDate}
                                    \cup {m.date : m \in Range(fetchedEmails)})
          IN IF fetchedEmails = <<>>
             THEN {DateResult(c, start, FALSE, fo.delivered, <<>>)}
             ELSE UNION {
               IF After(currentMaxDate, c.lastSeenDate)
               THEN {DateResult(x, start, FALSE, fo.delivered, sorted) :
                       x \in DateSaveStateWithLogging(
                               [c EXCEPT !.lastSeenDate = currentMaxDate])}
               ELSE {DateResult(c, start, FALSE, fo.delivered, sorted)}
               : sorted \in SortSlice(Range(fetchedEmails))}
          : fo \in Fetches(found)}
        : found \in Searches(mbox, c.lastSeenDate)}
      : searchErr \in IF faults THEN BOOLEAN ELSE {FALSE}}

\* CheckForNewEmails of the date-tracking checker.
DateCheckForNewEmails(c, mbox) ==
    UNION {
      IF conn # "ok"
      THEN {DateResult(Unsaved(c), c.lastSeenDate, TRUE, <<>>, <<>>)}
      ELSE IF Len(mbox) = 0
      THEN {DateResult(Unsaved(c), c.lastSeenDate, FALSE, <<>>, <<>>)}
      ELSE IF c.lastSeenDate = 0
      THEN UNION {
             IF i.err
             THEN {DateResult(i.c, c.lastSeenDate, TRUE, <<>>, <<>>)}
             ELSE DateScan(i.c, c.lastSeenDate, mbox)
             : i \in DateInitializeEmailTracking(c, mbox)}
      ELSE DateScan(Unsaved(c), c.lastSeenDate, mbox)
      : conn \in Conns}

NoDateResult == [err |-> FALSE, start |-> 0, fetched |-> <<>>, new |-> <<>>,
                 batch |-> <<>>]

InitDateChecker ==
    /\ mailbox \in {<<>>, InitialMailbox(2)}
    /\ used = {mailbox[i].uid : i \in DOMAIN mailbox}
    /\ pc = "boot"
    /\ ret = "none"
    /\ notifiedUIDs = {}
    /\ emailState = NewDateState
    /\ fs = [p \in {statePath, tempFile} |-> NoFile]
    /\ saveData = <<>>
    /\ result = NoDateResult
    /\ hist = [once |-> {}, twice |-> {}, resets |-> 0]
    /\ budget = MaxDateEvents
    /\ ticker = NoTicker
    /\ stop = FALSE
    /\ faults = TRUE
    /\ reset = NoReset
    /\ service = NoService
    /\ lastSeenDate = 0

\* The server delivers a message; its InternalDate need not be the latest.
DateArrive ==
    /\ pc \in {"boot", "init", "first", "wait"}
    /\ budget > 0
    /\ \E d \in 1..MaxMsgDate :
        LET u == Max(used \cup {FirstUID - 1}) + 1 IN
        /\ mailbox' = Append(mailbox, Msg(u, d))
        /\ used' = used \cup {u}
    /\ budget' = budget - 1
    /\ UNCHANGED <<pc, ret, notifiedUIDs, emailState, fs, saveData, result, hist,
                   ticker, stop, faults, reset, service, lastSeenDate>>

\* A message is expunged.
DateDelete ==
    /\ pc \in {"boot", "init", "first", "wait"}
    /\ budget > 0
    /\ \E i \in DOMAIN mailbox : mailbox' = RemoveAt(mailbox, i)
    /\ budget' = budget - 1
    /\ UNCHANGED <<used, pc, ret, notifiedUIDs, emailState, fs, saveData, result,
                   hist, ticker, stop, faults, reset, service, lastSeenDate>>

\* NewImapChecker of the date-tracking checker.
DateNewImapChecker ==
    /\ pc = "boot"
    /\ LET r == LoadDateState(fs) IN
        IF r.err
        THEN /\ pc' = "fatal"
             /\ UNCHANGED <<emailState, lastSeenDate>>
        ELSE /\ pc' = "init"
             /\ emailState' = r.state
             /\ lastSeenDate' = GetLastSeenDate(r.state, mailboxName)
    /\ UNCHANGED <<mailbox, used, ret, notifiedUIDs, fs, saveData, result, hist,
                   budget, ticker, stop, faults, reset, service>>

\* StartChecking, before the initial check: InitializeEmailTracking when
\* lastSeenDate is zero; its error is logged.
DateStartupInit ==
    /\ pc = "init"
    /\ \E i \in DateInitializeEmailTracking(Checker, mailbox) :
        /\ lastSeenDate' = i.c.lastSeenDate
        /\ emailState' = i.c.emailState
        /\ fs' = i.c.fs
    /\ pc' = "first"
    /\ UNCHANGED <<mailbox, used, ret, notifiedUIDs, saveData, result, hist, budget,
                   ticker, stop, faults, reset, service>>

\* StartChecking: the initial check and each scheduled check, with the
\* callback when the check returned no error and a non-empty batch.
DateCheck ==
    /\ pc \in {"first", "wait"}
    /\ \E r \in DateCheckForNewEmails(Checker, mailbox) :
        /\ lastSeenDate' = r.c.lastSeenDate
        /\ emailState' = r.c.emailState
        /\ fs' = r.c.fs
        /\ result' = [err |-> r.err, start |-> r.start, fetched |-> r.fetched,
                      new |-> r.new, batch |-> r.batch]
        /\ hist' = IF ShouldNotify(r)
                   THEN LET uids == Range(UIDsOf(r.new)) IN
                        [hist EXCEPT !.once = @ \cup uids,
                                     !.twice = @ \cup (hist.once \cap uids)]
                   ELSE hist
    /\ pc' = "wait"
    /\ UNCHANGED <<mailbox, used, ret, notifiedUIDs, saveData, budget, ticker, stop,
                   faults, reset, service>>

\* ResetState, the clearing step: lastSeenDate becomes the zero time and
\* saveStateWithLogging is called.  reset.ok is whether the save succeeded.
DateResetState ==
    /\ pc \in {"first", "wait"}
    /\ reset.pc = "idle"
    /\ hist.resets < MaxResets
    /\ \E x \in DateSaveStateWithLogging([Checker EXCEPT !.lastSeenDate = 0]) :
        /\ lastSeenDate' = x.lastSeenDate
        /\ emailState' = x.emailState
        /\ fs' = x.fs
        /\ reset' = [NoReset EXCEPT !.pc = "init", !.ok = x.saved]
    /\ hist' = [hist EXCEPT !.resets = @ + 1]
    /\ UNCHANGED <<mailbox, used, pc, ret, notifiedUIDs, saveData, result, budget,
                   ticker, stop, faults, service>>

\* ResetState, the re-baseline: InitializeEmailTracking, whose error is
\* logged.  reset.ok is whether it set a baseline and saved it.
DateResetInit ==
    /\ reset.pc = "init"
    /\ \E i \in DateInitializeEmailTracking(Checker, mailbox) :
        /\ lastSeenDate' = i.c.lastSeenDate
        /\ emailState' = i.c.emailState
        /\ fs' = i.c.fs
        /\ reset' = [NoReset EXCEPT !.ok = i.baselined /\ i.c.saved]
    /\ UNCHANGED <<mailbox, used, pc, ret, notifiedUIDs, saveData, result, hist,
                   budget, ticker, stop, faults, service>>

\* The process is killed and started again.
DateRestart ==
    /\ pc \in {"init", "first", "wait"}
    /\ budget > 0
    /\ pc' = "boot"
    /\ lastSeenDate' = 0
    /\ emailState' = NewDateState
    /\ result' = NoDateResult
    /\ reset' = NoReset
    /\ hist' = [hist EXCEPT !.once = {}, !.twice = {}, !.resets = 0]
    /\ budget' = budget - 1
    /\ UNCHANGED <<mailbox, used, ret, notifiedUIDs, fs, saveData, ticker, stop,
                   faults, service>>

NextDateChecker ==
    \/ DateArrive
    \/ DateDelete
    \/ DateNewImapChecker
    \/ DateStartupInit
    \/ DateCheck
    \/ DateResetState
    \/ DateResetInit
    \/ DateRestart

SpecDateChecker == InitDateChecker /\ [][NextDateChecker]_vars

(***************************************************************************)
(* Properties.                                                             *)
(***************************************************************************)
Returned == pc = "deliver" /\ ~result.err

BatchUIDs == Range(UIDsOf(result.new))

OnDisk == LoadEmailState(fs)

\* C1: no UID is included in more than one notification batch, over poll
\* cycles interleaved with mailbox changes, save failures and restarts.
C1_NoDuplicateNotify == hist.twice = {}

\* C2: no message that was in the mailbox when the baseline was established
\* is returned as new by a later poll cycle.
C2_PreexistingNeverReported == Returned => BatchUIDs \cap hist.preexisting = {}

\* C3: every message that arrived after the baseline is reported exactly
\* once: when a poll cycle that fetched it has completed without error, it
\* has been handed to the callback in one batch, and never in two.
C3_ExactlyOnce ==
    [][(Returned /\ ~result.init /\ pc' = "wait") =>
        \A u \in Range(result.fetched) \ hist.preexisting :
            u \in hist'.once /\ u \notin hist'.twice]_vars

Scenario3 == <<Msg(10, 1), Msg(11, 2), Msg(12, 3)>>

Scenario4 == Append(Scenario3, Msg(13, 4))

PollReturns == pc \in {"first", "wait"} /\ pc' \in {"deliver", "write"} /\ ~result'.err

C5_ThreePolls ==
    [][/\ (PollReturns /\ mailbox = Scenario3 /\ GetLastUIDs(emailState) = <<>>
            /\ notifiedUIDs = {}) =>
            /\ result'.batch = <<>>
            /\ Range(GetLastUIDs(emailState')) = {10, 11, 12}
            /\ GetHighestUID(emailState') = 12
       /\ (PollReturns /\ mailbox = Scenario4
            /\ Range(GetLastUIDs(emailState)) = {10, 11, 12}
            /\ notifiedUIDs = {10, 11, 12}) =>
            /\ result'.batch = <<SubjectOf(13)>>
            /\ Range(GetLastUIDs(emailState')) = {10, 11, 12, 13}
            /\ GetHighestUID(emailState') = 13
       /\ (PollReturns /\ mailbox = Scenario4
            /\ Range(GetLastUIDs(emailState)) = {10, 11, 12, 13}) =>
            /\ result'.batch = <<>>
            /\ emailState' = emailState]_vars

C5_Witness ==
    /\ Returned /\ ~result.init /\ result.batch = <<>>
    /\ mailbox = Scenario4
    /\ hist.preexisting = {10, 11, 12}
    /\ hist.once = {13}
    /\ Range(GetLastUIDs(emailState)) = {10, 11, 12, 13}
    /\ budget = MaxEvents - 1

\* C6: when the previous cycle returned an empty batch and the mailbox has
\* not changed since, the cycle returns an empty batch and writes nothing.
C6_IdempotentNoOp == (Returned /\ result.quiet) => (result.batch = <<>> /\ ~result.save)

\* C7: after n distinct identifiers have been inserted into an empty window,
\* the window is the last min(n, 100) of them in insertion order.
C7_WindowCapFIFO == GetLastUIDs(emailState) = Last(hist.inserted, WindowCap)

C7_Witness ==
    /\ Len(hist.inserted) = WindowCap + 5
    /\ Len(GetLastUIDs(emailState)) = WindowCap
    /\ GetLastUIDs(emailState)[1] = hist.inserted[6]
    /\ \E i \in 1..5 : hist.inserted[i] > GetLastUIDs(emailState)[1]

\* C8: whatever SaveEmailState was doing when it was interrupted, the state
\* file loads without error to the state of the last save whose rename
\* completed (the empty state if there was none).
C8_CrashSafety == OnDisk = [err |-> FALSE, state |-> hist.committed]

C8_Witness ==
    /\ hist.interrupted
    /\ pc = "init"
    /\ fs[statePath].exists
    /\ fs[tempFile].exists /\ Unmarshal(fs[tempFile].data).err
    /\ emailState = hist.committed

\* C9: when the callback is about to be invoked with a batch, the state file
\* holds the UIDs of all messages of the batch.
C9_PersistBeforeNotify ==
    (Returned /\ result.batch # <<>>) =>
        (~OnDisk.err /\ BatchUIDs \subseteq Range(GetLastUIDs(OnDisk.state)))

\* C10: the batch lists the subjects of exactly the messages judged new in
\* the cycle, by date descending.
C10_BatchOrdering ==
    Returned =>
        /\ result.batch = SubjectsOf(result.new)
        /\ BatchUIDs = result.judged
        /\ Len(result.new) = Cardinality(result.judged)
        /\ \A i, j \in DOMAIN result.new :
              i < j => result.new[i].date >= result.new[j].date

C10_Witness ==
    /\ Returned
    /\ Len(result.new) = 3
    /\ result.new[1].date > result.new[2].date
    /\ result.new[2].date > result.new[3].date
    /\ UIDsOf(result.new) # SelectSeq(result.fetched, LAMBDA u : u \in result.judged)
    /\ UIDsOf(result.new) # Reverse(SelectSeq(result.fetched, LAMBDA u : u \in result.judged))

(***************************************************************************)
(* Steps of the scheduler.                                                 *)
(***************************************************************************)
\* CheckForNewEmails returns, or goes into SaveEmailState.
PollStep == pc \in {"first", "wait"} /\ pc' \in {"deliver", "write"}

\* StartChecking calls CheckForNewEmails: the initial check, or a tick taken
\* from ticker.C.
CycleStartByTick == ticker.on /\ ticker'.on /\ Len(ticker'.C) < Len(ticker.C)

CycleStart == (pc = "first" /\ pc' \in {"deliver", "write"}) \/ CycleStartByTick

Gone == pc \in {"boot", "exited"}

\* C11: the callback is invoked once after a check that returned without
\* error and found a new message, and not after a baseline cycle, an empty
\* cycle or a cycle that returned an error.
C11_CallbackPerCycle ==
    [][(pc = "deliver" /\ pc' = "wait") =>
          hist'.calls = IF ~result.err /\ ~result.init /\ result.judged # {}
                        THEN 1 ELSE 0]_vars

C11_Witness == pc = "wait" /\ hist.calls = 1 /\ hist.once # {} /\ hist.preexisting # {}

\* C12: a scan judges a fetched message new exactly when its UID is not in
\* the LastUIDs list as it is when the cycle starts.
C12_NoveltyByWindow ==
    [][(PollStep /\ ~result'.init) =>
          result'.judged = {u \in Range(result'.fetched) :
                               u \notin Range(GetLastUIDs(emailState))}]_vars

\* C13: when the fetch fails after it has delivered messages, the cycle
\* returns without error and its batch holds the new ones among them.
C13_PartialFetchTolerated ==
    (pc = "deliver" /\ result.partial) =>
        (~result.err /\ result.judged \subseteq BatchUIDs)

\* C14: a cycle that returns an error leaves notifiedUIDs, LastUIDs and the
\* files as they were when it started.
C14_AbortLeavesState ==
    [][(PollStep /\ result'.err) =>
          /\ notifiedUIDs' = notifiedUIDs
          /\ emailState' = emailState
          /\ fs' = fs]_vars

\* C15: an InitializeEmailTracking that fails (connect, select, or the fetch,
\* also after messages were delivered) leaves notifiedUIDs, LastUIDs and the
\* files as they were and starts no save.
InitStep ==
    \/ pc = "init" /\ pc' \in {"first", "write"}
    \/ PollStep /\ result'.init

C15_BaselineFailure ==
    [][(InitStep /\ hist'.initErr # "none") =>
          /\ notifiedUIDs' = notifiedUIDs
          /\ emailState' = emailState
          /\ fs' = fs
          /\ pc' # "write"]_vars

C15_Witness ==
    /\ hist.initErr = "midfetch"
    /\ pc \in {"first", "deliver"}
    /\ Len(mailbox) > 1
    /\ notifiedUIDs = {}
    /\ emailState = NewEmailState
    /\ ~fs[statePath].exists

\* C16: a poll cycle calls SaveEmailState exactly when it changed LastUIDs.
C16_SaveIffChanged ==
    [][PollStep => ((pc' = "write") <=> (emailState' # emailState))]_vars

\* C17: no check is started while another one, or the startup baseline, has
\* not returned.
C17_SingleFlight == [][CycleStart => hist.flights = 0]_vars

C17_Witness ==
    /\ hist.flights = 1
    /\ pc \in {"write", "rename"}
    /\ ret = "deliver"
    /\ ticker.C = <<TRUE>>

\* C18: the initial check runs without waiting for a tick; a check that
\* returned an error is followed by the wait for the next tick; the wait
\* ends with another check; every tick in the channel is taken by a check
\* (each of these unless the process ends first).
C18_SchedulerCadence ==
    /\ (pc = "first") ~> (pc \in {"deliver", "write"} \/ Gone)
    /\ (pc = "deliver" /\ result.err) ~> (pc = "wait" \/ Gone)
    /\ (pc = "wait") ~> (pc \in {"deliver", "write"} \/ Gone)
    /\ (ticker.on /\ ticker.C # <<>>) ~> ((ticker.on /\ ticker.C = <<>>) \/ Gone)

C18_Witness == pc = "deliver" /\ result.err /\ ticker.on /\ ticker.C # <<>>

\* C19: no check is started by a tick that fired while an earlier check was
\* in flight.
C19_NoTickBacklog == [][CycleStartByTick => Head(ticker.C) = FALSE]_vars

\* C20: after the stop signal no check is started, and the process does not
\* end while a check is in flight.
C20_CooperativeCancel ==
    [][/\ stop => ~CycleStart
       /\ (pc # "exited" /\ pc' = "exited") => hist.flights = 0]_vars

\* C21: the cursor of the mailbox, the highest UID of the state, never
\* decreases from one step to the next, whatever the order of the identifiers
\* and whether or not the window evicts.
C21_CursorMonotone ==
    [][GetHighestUID(emailState') >= GetHighestUID(emailState)]_vars

\* A step in which WriteFile, or Rename, returns an error to SaveEmailState.
WriteFails == pc = "write" /\ pc' \notin {"write", "rename", "boot", "exited"}

RenameFails == pc = "rename" /\ pc' \notin {"rename", "boot", "exited"} /\ fs' = fs

C27_AtomicVisibility ==
    [][/\ \/ fs'[statePath] = fs[statePath]
          \/ /\ pc = "rename"
             /\ fs'[statePath] = File(Marshal(emailState))
       /\ fs'[statePath].exists => ~Unmarshal(fs'[statePath].data).err]_vars

\* A save is between its write and its rename: the temporary file holds the
\* new document and the state file still holds the previous one.
C27_Witness ==
    /\ pc = "rename"
    /\ fs[statePath].exists
    /\ fs[tempFile] = File(Marshal(emailState))
    /\ fs[statePath] # fs[tempFile]
    /\ Unmarshal(fs[statePath].data) = [err |-> FALSE, state |-> hist.committed]

\* C24: once the baseline has run on a mailbox without messages, the mailbox
\* counts as checked: no later cycle of the process takes it for a mailbox
\* that is not initialized and runs the baseline again.
C24_EmptyBaselineMarked == hist.emptyInit => ~result.init

\* C26: no session to the mailbox is opened while another one is open.
C26_NoOverlappingSessions == ~hist.overlap

\* C28: when LoadEmailState has accepted the state file (or found none), the
\* process is not ended by a panic in a baseline, a poll cycle or a save.
C28_NoCrashAfterLoad == pc # "panic"

\* The program has been run as  -service <action>  and has ended.
RanServiceAction ==
    /\ pc = "shell"
    /\ Len(hist.args) = 2
    /\ hist.args[1] = "-service"
    /\ hist.args[2] \in ServiceActions

\* C29: run as  -service <action>  the program performs that control action
\* and no other; run as  -service  alone it installs the service if it is
\* absent and starts it if it is not running.
C29_ServiceDispatch ==
    /\ RanServiceAction => hist.ops = <<hist.args[2]>>
    /\ (pc = "shell" /\ hist.args = <<"-service">>) =>
          hist.ops = (IF hist.before = "absent" THEN <<"install">> ELSE <<>>)
                     \o (IF hist.before # "running" THEN <<"start">> ELSE <<>>)

\* C30: a call of UpdateLastSeenDate stores the date it is given when the
\* mailbox has no date or the date is later than the stored one, and leaves
\* the state alone otherwise; the stored date of a mailbox never decreases.
C30_LastSeenMonotone ==
    [][\A mb \in DateMailboxes :
         LET had == mb \in DOMAIN emailState.LastSeenDates
             o == hist'.offered[Len(hist'.offered)]
         IN
           /\ had => /\ mb \in DOMAIN emailState'.LastSeenDates
                     /\ emailState'.LastSeenDates[mb] >= emailState.LastSeenDates[mb]
           /\ o.mailbox = mb =>
                emailState'.LastSeenDates[mb] =
                    IF ~had \/ o.date > emailState.LastSeenDates[mb]
                    THEN o.date ELSE emailState.LastSeenDates[mb]
           /\ (o.mailbox # mb /\ ~had) => mb \notin DOMAIN emailState'.LastSeenDates]_vars

\* A date earlier than the stored one, and then the stored one itself, were
\* offered and not stored.
C30_Witness ==
    /\ Len(hist.offered) = 3
    /\ \A i \in 1..3 : hist.offered[i].mailbox = mailboxName
    /\ hist.offered[2].date < hist.offered[1].date
    /\ hist.offered[3].date = hist.offered[1].date
    /\ emailState.LastSeenDates[mailboxName] = hist.offered[1].date

\* ResetState returns, having logged that tracking was re-initialized.
ResetCompletes == reset.pc # "done" /\ reset'.pc = "done" /\ reset'.ok

\* C23: when ResetState has completed with success, neither the state in
\* memory nor the state file holds a UID that was tracked before the reset
\* and whose message was not in the mailbox when the baseline was re-run.
C23_ResetReplacesState ==
    [][ResetCompletes =>
         LET gone == reset'.tracked \ reset'.present
             disk == LoadEmailState(fs')
         IN /\ notifiedUIDs' \cap gone = {}
            /\ Range(GetLastUIDs(emailState')) \cap gone = {}
            /\ ~disk.err
            /\ Range(GetLastUIDs(disk.state)) \cap gone = {}]_vars

\* A poll cycle is executing: CheckForNewEmails has not returned.
InCycle == pc \in {"write", "rename"} /\ ret = "deliver"

\* C25: while a poll cycle is executing, no step other than the cycle's own
\* changes notifiedUIDs, the EmailState or the files; and no cycle starts
\* while ResetState is executing.
C25_ExclusiveOwnership ==
    [][/\ (InCycle /\ pc' = pc) =>
            (notifiedUIDs' = notifiedUIDs /\ emailState' = emailState /\ fs' = fs)
       /\ CycleStart => reset.pc \in {"idle", "done"}]_vars

\* C31: a poll cycle that selects the mailbox and finds no message in it
\* returns the empty batch, saves nothing, runs no baseline, and leaves the
\* state in memory and the files as they were.
C31_EmptyMailboxFrame ==
    [][(PollReturns /\ Len(mailbox) = 0) =>
         /\ pc' = "deliver"
         /\ result'.batch = <<>>
         /\ ~result'.init /\ ~result'.save
         /\ notifiedUIDs' = notifiedUIDs
         /\ emailState' = emailState
         /\ fs' = fs]_vars

\* A cycle has found the mailbox empty while the state holds a UID.
C31_Witness ==
    /\ pc = "deliver"
    /\ ~result.err
    /\ mailbox = <<>>
    /\ result.batch = <<>>
    /\ GetLastUIDs(emailState) = <<FirstUID>>
    /\ OnDisk = [err |-> FALSE, state |-> emailState]

\* InitializeEmailTracking returns nil from a baseline on a mailbox that holds
\* messages: its save, the last thing it does, returns.
BaselineReturns ==
    /\ pc \in {"write", "rename"}
    /\ pc' = ret
    /\ Len(mailbox) > 0
    /\ ret = "first" \/ (ret = "deliver" /\ result.init /\ ~result.err)

\* The window holds the UIDs of the last min(10, m) messages of the mailbox
\* and nothing else, and its highest UID is the largest of them.
BaselineContent ==
    LET recent == UIDsOf(Last(mailbox, numToFetch)) IN
    /\ Range(GetLastUIDs(emailState')) = Range(recent)
    /\ Len(GetLastUIDs(emailState')) = Len(recent)
    /\ GetHighestUID(emailState') = Max(Range(recent))

\* C32: when a baseline on a mailbox of m > 0 messages has returned without
\* error, the window holds exactly the UIDs of the min(10, m) most recent
\* messages, the highest known UID is their maximum, and the state file
\* holds that state.
C32_BaselineContent ==
    [][BaselineReturns =>
         /\ BaselineContent
         /\ LoadEmailState(fs') = [err |-> FALSE, state |-> emailState']]_vars

\* C33: after every AddUID the list of the mailbox has no UID twice and at
\* most 100 entries, and an AddUID of a UID that is in the list leaves the
\* list as it was, order included.
C33_SeenWindowInvariant ==
    [][LET l == GetLastUIDs(emailState') IN
         /\ Cardinality(Range(l)) = Len(l)
         /\ Len(l) <= WindowCap
         /\ hist'.inserted = hist.inserted => l = GetLastUIDs(emailState)]_vars

\* The window is full, UIDs have been evicted, and the stream of UIDs was a
\* descending one.
C33_Witness ==
    /\ hist.gen.down
    /\ Len(hist.inserted) = MaxInserts
    /\ Len(GetLastUIDs(emailState)) = WindowCap
    /\ hist.inserted[1] \notin Range(GetLastUIDs(emailState))

\* C34: no cycle returns a UID that an earlier cycle of the process has
\* returned, however many UIDs have left the list of the last 100.
C34_NoRepeatInProcess ==
    [][PollReturns => Range(UIDsOf(result'.new)) \cap hist.once = {}]_vars

\* A cycle has fetched a message that an earlier cycle returned and whose
\* UID is no longer in the list, and has not returned it.
C34_Witness ==
    /\ pc = "deliver"
    /\ ~result.err
    /\ (FirstUID + 1) \in Range(result.fetched)
    /\ (FirstUID + 1) \in hist.once
    /\ (FirstUID + 1) \notin Range(GetLastUIDs(emailState))
    /\ Len(GetLastUIDs(emailState)) = WindowCap
    /\ result.new = <<>>

BetweenOperations == pc \in {"init", "first", "deliver", "wait"}

Mirrored ==
    /\ ~OnDisk.err
    /\ GetLastUIDs(OnDisk.state) = GetLastUIDs(emailState)

C36_DiskMirrorsMemory == (BetweenOperations /\ ~hist.saveFailed) => Mirrored

(***************************************************************************)
(* C37  Bounded-arrival delivery: with an initialized state (non-empty     *)
(* list of seen UIDs), no message deleted and at most numToCheck messages  *)
(* arrived, a poll cycle that returns without error returns every message  *)
(* that arrived since the previous cycle that returned without error.      *)
(***************************************************************************)
NothingDeleted == used = Range(UIDsOf(mailbox))

C37_BoundedArrivalDelivery ==
    [][(PollReturns /\ hist.polled /\ GetLastUIDs(emailState) # <<>>
          /\ NothingDeleted /\ Cardinality(hist.pending) <= numToCheck)
       => hist.pending \subseteq Range(UIDsOf(result'.new))]_vars

(***************************************************************************)
(* C38  Date-tracking reset: the clearing step of ResetState saves the     *)
(* zero date, and after the re-baseline the date in the state file equals  *)
(* lastSeenDate, the date of the newest message, also when that date is    *)
(* earlier than the date the file held before the reset.  (Stated for the  *)
(* resets whose saves succeeded.)                                          *)
(***************************************************************************)
PersistedDate == GetLastSeenDate(LoadDateState(fs).state, mailboxName)

ResetCleared == reset.pc = "idle" /\ reset'.pc = "init" /\ reset'.ok

ResetRebaselined == reset.pc = "init" /\ reset'.pc = "idle" /\ reset'.ok

C38_DateReset ==
    [][/\ ResetCleared => PersistedDate' = 0
       /\ ResetRebaselined => PersistedDate' = lastSeenDate']_vars

(***************************************************************************)
(* C39  Date-tracking novelty: a cycle returns exactly the fetched         *)
(* messages whose date is strictly after lastSeenDate at the start of the  *)
(* cycle; after a cycle that returns a non-empty batch lastSeenDate is the *)
(* maximum date of the returned messages; without ResetState lastSeenDate  *)
(* never decreases and no message is returned by two cycles of a process.  *)
(***************************************************************************)
\* A cycle of the date-tracking checker returns without error.
DateCycleReturns ==
    /\ pc \in {"first", "wait"}
    /\ pc' = "wait"
    /\ mailbox' = mailbox
    /\ reset' = reset
    /\ ~result'.err

ReturnsExactlyLater ==
    DateCycleReturns =>
        Range(result'.new) = {m \in Range(result'.fetched) : After(m.date, lastSeenDate)}

MovesToMaxReturned ==
    (DateCycleReturns /\ result'.new # <<>>) =>
        lastSeenDate' = Max({m.date : m \in Range(result'.new)})

NeverDecreases ==
    (hist'.resets = 0 /\ pc # "boot" /\ pc' # "boot") => lastSeenDate' >= lastSeenDate

NoRepeat ==
    (DateCycleReturns /\ hist'.resets = 0) =>
        Range(UIDsOf(result'.new)) \cap hist.once = {}

C39_DateNovelty ==
    [][ReturnsExactlyLater /\ MovesToMaxReturned /\ NeverDecreases /\ NoRepeat]_vars

=============================================================================
